---- MODULE Spec2Model ----
(***************************************************************************)
(* Model of python/nimblephysics/gui_server.py: the NimbleGUI session with *)
(* its two backends (websocket GUI driven by a Ticker, and the pybullet    *)
(* mirror renderer), the joint index mapper (bullet_reset) and the state   *)
(* splitter (bullet_loopState).                                            *)
(***************************************************************************)
EXTENDS Integers, Sequences, FiniteSets, TLC

\* ------------------------------------------------------------------ bounds
MaxLen == 2        \* longest trajectory a caller hands to loopStates / loopPosMatrix
MaxVal == 1        \* joint positions and velocities range over 0..MaxVal
MaxSkels == 2      \* most skeletons in a world that is loaded into the renderer
MaxJoints == 2     \* most joints in a world that is loaded into the renderer
MaxStops == 2      \* stopServing calls that are counted (the counter saturates)

\* an optional value (python's None or a value): <<>> or <<v>>
None == <<>>
Some(v) == <<v>>

Vals == 0..MaxVal

Min(a, b) == IF a < b THEN a ELSE b

\* ------------------------------------------------------- the World collaborator
JointTypes == {"WeldJoint", "FreeJoint", "RevoluteJoint", "BallJoint"}

\* joint.NumDofs of each joint type
NumDofs(type) ==
  CASE type = "WeldJoint" -> 0
    [] type = "FreeJoint" -> 6
    [] type = "RevoluteJoint" -> 1
    [] type = "BallJoint" -> 3

JointNameOf == <<"root", "elbow", "wrist", "knee", "ankle">>
SkelNameOf == <<"arm", "leg", "box", "cup">>

Joint(type, k) == [type |-> type, name |-> JointNameOf[k], dof |-> NumDofs(type)]

\* the joint lists of n joints, named by their place in the list
JointLists(n) == {[k \in 1..n |-> Joint(t[k], k)] : t \in [1..n -> JointTypes]}

\* skeleton.getBasePos() / skeleton.getEulerAngle() of the k-th skeleton
BasePos(k) == <<k, 0, 2 * k>>
BaseRot(k) == <<0, k, 1>>

Skeleton(k, joints) ==
  [name |-> SkelNameOf[k], joints |-> joints, pos |-> BasePos(k), rot |-> BaseRot(k)]

\* skeleton.getNumDofs(): fixed joints have no degree of freedom
RECURSIVE SumDofs(_)
SumDofs(joints) ==
  IF joints = <<>> THEN 0 ELSE Head(joints).dof + SumDofs(Tail(joints))

SkelNumDofs(skel) == SumDofs(skel.joints)

\* world.getNumDofs()
RECURSIVE WorldNumDofs(_)
WorldNumDofs(skels) ==
  IF skels = <<>> THEN 0 ELSE SkelNumDofs(Head(skels)) + WorldNumDofs(Tail(skels))

\* the lists of skeletons k..n that have at most budget joints in all
RECURSIVE SkelSeqs(_, _, _)
SkelSeqs(k, n, budget) ==
  IF k > n THEN {<<>>}
  ELSE UNION {{<<Skeleton(k, js)>> \o rest :
                 js \in JointLists(m), rest \in SkelSeqs(k + 1, n, budget - m)}
              : m \in 0..budget}

\* the worlds of at most MaxSkels skeletons and MaxJoints joints in all
Worlds == UNION {SkelSeqs(1, n, MaxJoints) : n \in 0..MaxSkels}

\* the joint names pybullet reports for the body loaded from a skeleton's URDF,
\* in pybullet's joint index order (index 0 first): any list without repeats
\* over the skeleton's joint names
RECURSIVE InjSeqs(_)
InjSeqs(S) ==
  {<<>>} \cup UNION {{<<x>> \o r : r \in InjSeqs(S \ {x})} : x \in S}

UrdfTables(skel) == InjSeqs({skel.joints[k].name : k \in 1..Len(skel.joints)})

\* one table for each of the skeletons k.. of a world
RECURSIVE TableSeqs(_, _)
TableSeqs(skels, k) ==
  IF k > Len(skels) THEN {<<>>}
  ELSE {<<tb>> \o rest : tb \in UrdfTables(skels[k]), rest \in TableSeqs(skels, k + 1)}

UrdfChoices(skels) == TableSeqs(skels, 1)

\* world.getState(): positions of all degrees of freedom, then velocities
RampVec(n, b) == [j \in 1..n |-> (b + j - 1) % (MaxVal + 1)]

StateVectors(n) == {RampVec(n, b) : b \in Vals}

\* the states a world is loaded in: the ramps, all zeros, and the state whose
\* j-th value is j
LoadStates(n) == StateVectors(n) \cup {[j \in 1..n |-> 0], [j \in 1..n |-> j]}

\* the lists of states a caller hands to loopStates (each of length n)
StateLists(n) ==
  {[k \in 1..len |-> RampVec(n, b + k - 1)] : len \in 0..MaxLen, b \in Vals}

\* the DOF x count matrices a caller hands to loopPosMatrix, as the list of
\* their columns (d rows)
PosMatrices(d) ==
  {[k \in 1..len |-> RampVec(d, b + k - 1)] : len \in 0..MaxLen, b \in Vals}

\* ------------------------------------------------------------ python helpers
\* the slice taken from the start of the sequence, whatever a is
PySliceFromStart(s, a, b) == SubSeq(s, 1, Min(b, Len(s)))

\* s[a:b] of a python sequence (0-based, truncating)
PySlice(s, a, b) ==
  IF a >= Min(b, Len(s)) THEN <<>> ELSE SubSeq(s, a + 1, Min(b, Len(s)))

\* the sum that keeps its first operand
VecAddFirst(u, v) == u

VecAdd(u, v) == [k \in 1..Min(Len(u), Len(v)) |-> u[k] + v[k]]

\* p.getQuaternionFromEuler: an opaque conversion, kept symbolic
Quat(euler) == <<"quat", euler>>

Call(fn, args) == [fn |-> fn, args |-> args]

\* --------------------------------------------------------- Joint Index Mapper
\* bullet_joint_name_idx: joint name -> pybullet joint index
BulletJointIdx(table, name) ==
  (CHOOSE k \in 1..Len(table) : table[k] = name) - 1

InTable(table, name) == \E k \in 1..Len(table) : table[k] = name

\* the assertion left out (as under python -O)
JointFoundUnchecked(table, name) == TRUE

\* line 226: the condition of the assertion
JointFound(table, name) == InTable(table, name)

\* the offset advanced by one per joint instead of by the joint's DOF count
NextTickByOne(tick, dof) == tick + 1

\* line 231: tick += dof
NextTick(tick, dof) == tick + dof

\* lines 209-231: the loop over one skeleton's joints, from joint k on
RECURSIVE MapJoints(_, _, _, _, _)
MapJoints(joints, table, k, tick, acc) ==
  IF k > Len(joints) THEN [ok |-> TRUE, entries |-> acc, missing |-> "", err |-> ""]
  ELSE LET joint == joints[k] IN
    IF joint.type = "WeldJoint" THEN MapJoints(joints, table, k + 1, tick, acc)
    ELSE IF joint.type = "FreeJoint"   \* no renderer joint index: None, kept as -1
      THEN MapJoints(joints, table, k + 1, NextTick(tick, joint.dof),
             Append(acc, [isFreeJoint |-> TRUE, staTick |-> tick, dof |-> joint.dof,
                          bullet_joint_idx |-> -1, nimble_joint_idx |-> k - 1]))
    ELSE IF ~JointFound(table, joint.name)
      THEN [ok |-> FALSE, entries |-> acc, missing |-> joint.name, err |-> "AssertionError"]
    ELSE IF ~InTable(table, joint.name)   \* line 228: the dict lookup
      THEN [ok |-> FALSE, entries |-> acc, missing |-> joint.name, err |-> "KeyError"]
    ELSE MapJoints(joints, table, k + 1, NextTick(tick, joint.dof),
             Append(acc, [isFreeJoint |-> FALSE, staTick |-> tick, dof |-> joint.dof,
                          bullet_joint_idx |-> BulletJointIdx(table, joint.name),
                          nimble_joint_idx |-> k - 1]))

\* the message of the assertion on line 226
AssertMessage(jointName, skelName) == <<jointName, " is not found in bullet, check urdf">>

\* lines 185-231: the loop over the skeletons, from skeleton k on
RECURSIVE ResetSkeletons(_, _, _, _)
ResetSkeletons(skels, urdf, k, acc) ==
  IF k > Len(skels) THEN acc
  ELSE LET skel == skels[k]
           m == MapJoints(skel.joints, urdf[k], 1, 0, <<>>)
           loaded == [acc EXCEPT
                        !.calls = Append(@, Call("loadURDF", <<skel.name, skel.pos, Quat(skel.rot)>>)),
                        !.skeleton_to_bullet_id = Append(@, <<skel.name, k - 1>>),
                        !.init_pos_rot = Append(@, <<skel.name, skel.pos, skel.rot>>)]
       IN IF m.ok
            THEN ResetSkeletons(skels, urdf, k + 1,
                   [loaded EXCEPT !.joint_to_state = Append(@, m.entries)])
            ELSE [loaded EXCEPT !.ok = FALSE,
                                !.err = <<m.err, IF m.err = "AssertionError"
                                                      THEN AssertMessage(m.missing, skel.name)
                                                      ELSE <<m.missing>>>>,
                                !.joint_to_state = Append(@, m.entries)]

\* NimbleGUI.bullet_reset
bullet_reset(skels, urdf) ==
  ResetSkeletons(skels, urdf, 1,
    [ok |-> TRUE, err |-> None,
     calls |-> <<Call("resetSimulation", <<>>)>>,
     skeleton_to_bullet_id |-> <<>>, init_pos_rot |-> <<>>, joint_to_state |-> <<>>])

\* ------------------------------------------------------------- State Splitter
\* a python dict kept as a list of <<key, ...>> entries: the last entry of a key
DictGet(d, key) ==
  d[CHOOSE k \in 1..Len(d) : d[k][1] = key /\ \A m \in (k + 1)..Len(d) : d[m][1] # key]

\* lines 274-292: the loop over one skeleton's joint_info entries, from entry k on
RECURSIVE LoopJoints(_, _, _, _, _, _)
LoopJoints(entries, k, p_id, actions, init, acc) ==
  IF k > Len(entries) THEN acc
  ELSE LET e == entries[k] IN
    IF e.isFreeJoint
      THEN LET action == PySlice(actions, e.staTick, e.staTick + e.dof)
               pos_change == PySlice(action, 3, Len(action))
               angle_change == PySlice(action, 0, 3)
           IN LoopJoints(entries, k + 1, p_id, actions, init,
                Append(acc, Call("resetBasePositionAndOrientation",
                                 <<p_id, VecAdd(pos_change, init[2]),
                                   Quat(VecAdd(init[3], angle_change))>>)))
    ELSE IF e.dof = 1
      THEN LoopJoints(entries, k + 1, p_id, actions, init,
             Append(acc, Call("resetJointState",
                              <<p_id, e.bullet_joint_idx, actions[e.staTick + 1]>>)))
    ELSE LoopJoints(entries, k + 1, p_id, actions, init,
             Append(acc, Call("resetJointStateMultiDof",
                              <<p_id, e.bullet_joint_idx,
                                PySlice(actions, e.staTick, e.staTick + e.dof)>>)))

\* lines 264-294: the loop over the skeletons, from skeleton k on
RECURSIVE LoopSkeletons(_, _, _, _, _, _, _, _)
LoopSkeletons(skels, k, tick, state, s2b, ipr, j2s, acc) ==
  IF k > Len(skels) THEN acc
  ELSE LET skeleton == skels[k]
           dof == SkelNumDofs(skeleton)
       IN IF dof = 0 THEN LoopSkeletons(skels, k + 1, tick, state, s2b, ipr, j2s, acc)
          ELSE LoopSkeletons(skels, k + 1, tick + dof, state, s2b, ipr, j2s,
                 LoopJoints(j2s[k], 1, DictGet(s2b, skeleton.name)[2],
                            PySlice(state, tick, tick + dof),
                            DictGet(ipr, skeleton.name), acc))

\* the buffers written for every frame that has a save index
CameraCallsAnyPath(synth, camPath, save_idx) ==
  IF ~synth THEN <<>>
  ELSE <<Call("getCameraImage", <<640, 480>>)>> \o
       (IF save_idx # None
          THEN <<Call("np.save", <<"rgb_", save_idx[1]>>),
                 Call("np.save", <<"depth_", save_idx[1]>>),
                 Call("np.save", <<"segmentation_", save_idx[1]>>)>>
          ELSE <<>>)

\* lines 296-307: the synthetic camera and the Frame Capture Sink
CameraCalls(synth, camPath, save_idx) ==
  IF ~synth THEN <<>>
  ELSE <<Call("getCameraImage", <<640, 480>>)>> \o
       (IF camPath # None /\ save_idx # None
          THEN <<Call("np.save", <<"rgb_", save_idx[1]>>),
                 Call("np.save", <<"depth_", save_idx[1]>>),
                 Call("np.save", <<"segmentation_", save_idx[1]>>)>>
          ELSE <<>>)

\* NimbleGUI.bullet_loopState: the renderer calls it makes, in order
bullet_loopState(skels, s2b, ipr, j2s, synth, camPath, state, save_idx) ==
  LoopSkeletons(skels, 1, 0, state, s2b, ipr, j2s, <<>>) \o CameraCalls(synth, camPath, save_idx)

\* NimbleGUI.render_bullet_init: the renderer calls it makes and the mapping it
\* leaves, or the error that ends it
render_bullet_init(skels, urdf, state, synth, hl) ==
  LET setup == <<Call("connect", <<IF hl THEN "DIRECT" ELSE "GUI">>)>> \o
               (IF synth
                  THEN <<Call("configureDebugVisualizer", <<"COV_ENABLE_SEGMENTATION_MARK_PREVIEW", 1>>),
                         Call("configureDebugVisualizer", <<"COV_ENABLE_DEPTH_BUFFER_PREVIEW", 1>>),
                         Call("configureDebugVisualizer", <<"COV_ENABLE_RGB_BUFFER_PREVIEW", 1>>)>>
                  ELSE <<Call("configureDebugVisualizer", <<"COV_ENABLE_GUI", 0>>)>>) \o
               <<Call("setAdditionalSearchPath", <<>>),
                 Call("setTimeStep", <<"0.01">>),
                 Call("setGravity", <<0, 0, 0>>)>>
      r == bullet_reset(skels, urdf)
  IN IF ~r.ok THEN [r EXCEPT !.calls = setup \o @]
     ELSE [r EXCEPT !.calls = setup \o @ \o
             bullet_loopState(skels, r.skeleton_to_bullet_id, r.init_pos_rot,
                              r.joint_to_state, synth, None, state, None)]

\* ------------------------------------------------------------------- state
VARIABLES
  worldSkels,     \* the skeletons of the world handed to the constructor
  callerState,    \* the state (positions, velocities) of the caller-owned world
  urdf,           \* the joint tables of the bodies pybullet loaded
  phase,          \* "new", "ready" (constructed) or "failed" (__init__ raised)
  useBullet,
  selfWorld,      \* the object self.world refers to: "none", "caller" or "clone"
  cloneState,     \* the state of the clone made by worldToCopy.clone()
  looping,        \* self.looping: "unset", "True" or "False"
  posMatrixToLoop,
  i,
  guiServer,      \* "none", "idle", "serving" or "stopped"
  httpd,          \* "none", "serving" or "shutdown"
  ticker,         \* "none", "idle" or "running"
  caller,         \* where the caller thread is
  connected,      \* the pybullet connection
  log_id, saveCameraPath, useSyntheticCamera, headless,
  skeleton_to_bullet_id, init_pos_rot, joint_to_state,
  calls,          \* the collaborator calls made by the latest operation, in order
  last,           \* the latest operation and what it gave the caller
  ticks,          \* _onTick firings since a loop was started at cursor 0 (-1: not so)
  shown,          \* the state of the latest displayState no loop start followed
  teardowns,      \* stopServing calls that completed
  tickPc,         \* where a firing of _onTick is, when its lines run one by one
  callerBuf,      \* the buffer the caller passed to the latest loop call
  aliased         \* whether self.posMatrixToLoop is that buffer itself (a view)

envVars == <<worldSkels, callerState, urdf>>
sessionVars == <<phase, useBullet, selfWorld, cloneState, looping, posMatrixToLoop, i>>
serverVars == <<guiServer, httpd, ticker>>
bulletVars == <<connected, log_id, saveCameraPath, useSyntheticCamera, headless,
                skeleton_to_bullet_id, init_pos_rot, joint_to_state>>
historyVars == <<ticks, shown, teardowns>>
bufferVars == <<callerBuf, aliased>>
auxVars == <<tickPc, bufferVars>>
vars == <<envVars, sessionVars, serverVars, caller, bulletVars, calls, last, historyVars,
          auxVars>>

\* lastIdx, prevIdx: the save indices of the latest two frames of the call (-1: none)
Idle == [at |-> "idle", states |-> <<>>, k |-> 0, indefinite |-> FALSE, start |-> 0,
         lastIdx |-> -1, prevIdx |-> -1]

NoBuffer == [kind |-> "none", val |-> <<>>]

Result(op, warned, raised, msg) ==
  [op |-> op, warned |-> warned, raised |-> raised, msg |-> msg]

\* the state before the constructor runs, over the worlds W
InitRest ==
  /\ urdf = <<>>
  /\ phase = "new"
  /\ useBullet = FALSE
  /\ selfWorld = "none"
  /\ cloneState = <<>>
  /\ looping = "unset"
  /\ posMatrixToLoop = <<>>
  /\ i = 0
  /\ guiServer = "none"
  /\ httpd = "none"
  /\ ticker = "none"
  /\ caller = Idle
  /\ connected = FALSE
  /\ log_id = None
  /\ saveCameraPath = None
  /\ useSyntheticCamera = FALSE
  /\ headless = FALSE
  /\ skeleton_to_bullet_id = <<>>
  /\ init_pos_rot = <<>>
  /\ joint_to_state = <<>>
  /\ calls = <<>>
  /\ last = Result("none", FALSE, "", <<>>)
  /\ ticks = -1
  /\ shown = None
  /\ teardowns = 0
  /\ tickPc = "idle"
  /\ callerBuf = NoBuffer
  /\ aliased = FALSE

InitOver(W) ==
  /\ worldSkels \in W
  /\ callerState \in StateVectors(2 * WorldNumDofs(worldSkels))
  /\ InitRest

\* the world of a session that is then driven through its operations: one
\* skeleton with one revolute joint
SessionWorlds == {<<Skeleton(1, <<Joint("RevoluteJoint", 1)>>)>>}

Init == InitOver(SessionWorlds)

\* ------------------------------------------------------------- construction
\* NimbleGUI.__init__, useBullet=True (lines 73-86)
NimbleGUI_init_bullet(synth, camPath, video, hl, tables) ==
  LET r == render_bullet_init(worldSkels, tables, callerState, synth, hl) IN
  /\ phase = "new"
  /\ urdf' = tables
  /\ useBullet' = TRUE
  /\ useSyntheticCamera' = synth
  /\ headless' = hl
  /\ selfWorld' = "caller"
  /\ connected' = TRUE
  /\ skeleton_to_bullet_id' = r.skeleton_to_bullet_id
  /\ init_pos_rot' = r.init_pos_rot
  /\ joint_to_state' = r.joint_to_state
  /\ phase' = IF r.ok THEN "ready" ELSE "failed"
  /\ log_id' = IF r.ok /\ video THEN Some(0) ELSE None
  /\ saveCameraPath' = IF r.ok /\ camPath THEN Some("dir") ELSE None
  /\ calls' = r.calls \o (IF r.ok /\ video THEN <<Call("startStateLogging", <<"mp4">>)>> ELSE <<>>)
  /\ last' = IF r.ok THEN Result("__init__", FALSE, "", <<>>)
                     ELSE Result("__init__", FALSE, r.err[1], r.err[2])
  /\ UNCHANGED <<auxVars, worldSkels, callerState, cloneState, looping, posMatrixToLoop, i,
                 serverVars, caller, historyVars>>

\* NimbleGUI.__init__, useBullet=False (lines 87-98)
NimbleGUI_init_websocket ==
  /\ phase = "new"
  /\ phase' = "ready"
  /\ useBullet' = FALSE
  /\ selfWorld' = "clone"
  /\ cloneState' = callerState
  /\ guiServer' = "idle"
  /\ ticker' = "idle"
  /\ looping' = "False"
  /\ posMatrixToLoop' = <<>>
  /\ i' = 0
  /\ calls' = <<Call("renderWorld", <<callerState>>)>>
  /\ last' = Result("__init__", FALSE, "", <<>>)
  /\ UNCHANGED <<auxVars, envVars, httpd, caller, bulletVars, historyVars>>

\* --------------------------------------------------------------- operations
\* the caller holds a constructed session and is not inside a blocking call
Callable == phase = "ready" /\ caller = Idle

\* world.setPositions(pos): the velocities stay
SetPositions(state, pos) == pos \o SubSeq(state, Len(pos) + 1, Len(state))

\* NimbleGUI.serve (lines 100-110)
serve ==
  /\ Callable
  /\ IF useBullet
       THEN /\ calls' = <<>>
            /\ last' = Result("serve", TRUE, "", <<>>)
            /\ UNCHANGED <<guiServer, httpd>>
       ELSE /\ guiServer' = "serving"
            /\ httpd' = "serving"
            /\ calls' = <<Call("guiServer.serve", <<8070>>), Call("httpd.serve_forever", <<>>)>>
            /\ last' = Result("serve", FALSE, "", <<>>)
  /\ ticks' = -1
  /\ UNCHANGED <<auxVars, envVars, sessionVars, ticker, caller, bulletVars, shown, teardowns>>

\* the teardown that disconnects first
stopServing_bulletDisconnectFirst(lid) ==
  <<Call("disconnect", <<>>)>>
    \o (IF lid # None THEN <<Call("stopStateLogging", lid)>> ELSE <<>>)

\* lines 114-117: the pybullet calls of a bullet-mode teardown, in order
stopServing_bullet(lid) ==
  (IF lid # None THEN <<Call("stopStateLogging", lid)>> ELSE <<>>)
    \o <<Call("disconnect", <<>>)>>

\* NimbleGUI.stopServing (lines 112-121)
stopServing ==
  /\ Callable
  /\ teardowns < MaxStops
  /\ IF useBullet
       THEN /\ calls' = stopServing_bullet(log_id)
            /\ connected' = FALSE
            /\ last' = Result("stopServing", FALSE, "", <<>>)
            /\ teardowns' = teardowns + 1
            /\ UNCHANGED <<guiServer, httpd>>
       ELSE /\ guiServer' = "stopped"
            /\ connected' = connected
            /\ IF httpd = "none"
                 THEN /\ calls' = <<Call("guiServer.stopServing", <<>>)>>
                      /\ last' = Result("stopServing", FALSE, "AttributeError", <<"httpd">>)
                      /\ UNCHANGED <<httpd, teardowns>>
                 ELSE /\ calls' = <<Call("guiServer.stopServing", <<>>), Call("httpd.shutdown", <<>>)>>
                      /\ httpd' = "shutdown"
                      /\ last' = Result("stopServing", FALSE, "", <<>>)
                      /\ teardowns' = teardowns + 1
  /\ ticks' = -1
  /\ UNCHANGED <<auxVars, envVars, sessionVars, ticker, caller, log_id, saveCameraPath,
                 useSyntheticCamera, headless, skeleton_to_bullet_id, init_pos_rot,
                 joint_to_state, shown>>

\* displayState without line 124: the flag is left as it was
displayState_loopingKept == looping

\* line 124: self.looping = False
displayState_looping == "False"

\* NimbleGUI.displayState (lines 123-126)
displayState(state) ==
  /\ Callable
  /\ looping' = displayState_looping
  /\ cloneState' = IF selfWorld = "clone" THEN state ELSE cloneState
  /\ callerState' = IF selfWorld = "caller" THEN state ELSE callerState
  /\ IF useBullet
       THEN /\ calls' = <<Call("setState", <<state>>)>>
            /\ last' = Result("displayState", FALSE, "AttributeError", <<"guiServer">>)
            /\ shown' = shown
       ELSE /\ calls' = <<Call("setState", <<state>>), Call("renderWorld", <<state>>)>>
            /\ last' = Result("displayState", FALSE, "", <<>>)
            /\ shown' = Some([state |-> state, active |-> looping = "True"])
  /\ ticks' = -1
  /\ UNCHANGED <<auxVars, worldSkels, urdf, phase, useBullet, selfWorld, posMatrixToLoop, i,
                 serverVars, caller, bulletVars, teardowns>>

\* lines 142-145: the position half of every state, as the columns of poses
PosesOf(states, dofs) == [k \in 1..Len(states) |-> PySlice(states[k], 0, dofs)]

\* NimbleGUI.loopStates (lines 128-147): in bullet mode the caller enters the
\* blocking loop, whose frames are the steps of loopStates_frame
loopStates(states, indefinite, save_start_idx) ==
  /\ Callable
  /\ IF useBullet
       THEN /\ caller' = [at |-> "loopStates", states |-> states, k |-> 0,
                          indefinite |-> indefinite, start |-> save_start_idx,
                          lastIdx |-> -1, prevIdx |-> -1]
            /\ calls' = <<>>
            /\ UNCHANGED <<looping, posMatrixToLoop, bufferVars>>
       ELSE /\ looping' = "True"
            /\ posMatrixToLoop' = PosesOf(states, WorldNumDofs(worldSkels))
            /\ calls' = <<Call("renderTrajectoryLines", <<posMatrixToLoop'>>)>>
            /\ caller' = caller
            /\ callerBuf' = [kind |-> "states", val |-> states]
            /\ aliased' = FALSE     \* poses is a fresh array filled by value
  /\ last' = Result("loopStates", FALSE, "", <<>>)
  /\ ticks' = IF ~useBullet /\ i = 0 THEN 0 ELSE -1
  /\ shown' = None
  /\ UNCHANGED <<tickPc, envVars, phase, useBullet, selfWorld, cloneState, i, serverVars,
                 bulletVars, teardowns>>

\* the save index without the start index
SaveIdxFromZero(k, save_start_idx) == k

\* line 134: the save index of the k-th state (k from 0) of the list
SaveIdx(k, save_start_idx) == k + save_start_idx

\* the loop that never ends
LoopBreaksNever(indefinite) == FALSE

\* lines 136-137: whether the loop ends after a pass over the states
LoopBreaks(indefinite) == ~indefinite

\* lines 132-138: one pass of the blocking loop's body, or its end
loopStates_frame ==
  /\ phase = "ready"
  /\ caller.at = "loopStates"
  /\ IF caller.k < Len(caller.states)
       THEN /\ calls' = bullet_loopState(worldSkels, skeleton_to_bullet_id, init_pos_rot,
                                         joint_to_state, useSyntheticCamera, saveCameraPath,
                                         caller.states[caller.k + 1],
                                         Some(SaveIdx(caller.k, caller.start)))
            /\ caller' = [caller EXCEPT !.k = @ + 1,
                                        !.lastIdx = SaveIdx(caller.k, caller.start),
                                        !.prevIdx = caller.lastIdx]
            /\ last' = Result("bullet_loopState", FALSE, "", <<>>)
       ELSE /\ calls' = <<>>
            /\ caller' = IF LoopBreaks(caller.indefinite) THEN Idle ELSE [caller EXCEPT !.k = 0]
            /\ last' = Result("loopStates", FALSE, "", <<>>)
  /\ UNCHANGED <<auxVars, envVars, sessionVars, serverVars, bulletVars, historyVars>>

\* the matrix kept without the copy: a view of the caller's buffer
loopPosMatrix_view == TRUE

\* line 153: np.copy(poses) is no view of the caller's buffer
loopPosMatrix_aliases == FALSE

\* NimbleGUI.loopPosMatrix (lines 149-153)
loopPosMatrix(poses) ==
  /\ Callable
  /\ looping' = "True"
  /\ IF useBullet
       THEN /\ calls' = <<>>
            /\ last' = Result("loopPosMatrix", FALSE, "AttributeError", <<"guiServer">>)
            /\ UNCHANGED <<posMatrixToLoop, bufferVars>>
       ELSE /\ calls' = <<Call("renderTrajectoryLines", <<poses>>)>>
            /\ posMatrixToLoop' = poses
            /\ callerBuf' = [kind |-> "poses", val |-> poses]
            /\ aliased' = loopPosMatrix_aliases
            /\ last' = Result("loopPosMatrix", FALSE, "", <<>>)
  /\ ticks' = IF ~useBullet /\ i = 0 THEN 0 ELSE -1
  /\ shown' = IF useBullet THEN shown ELSE None
  /\ UNCHANGED <<tickPc, envVars, phase, useBullet, selfWorld, cloneState, i, serverVars,
                 caller, bulletVars, teardowns>>

\* the contents the caller can give the buffer it passed: same shape, other values
BufferContents(buf) ==
  IF buf.kind = "poses"
    THEN {m \in PosMatrices(WorldNumDofs(worldSkels)) : Len(m) = Len(buf.val) /\ m # buf.val}
    ELSE {s \in StateLists(2 * WorldNumDofs(worldSkels)) : Len(s) = Len(buf.val) /\ s # buf.val}

\* the caller writes into the buffer it passed to loopStates / loopPosMatrix,
\* after that call returned
callerWrites(val) ==
  /\ Callable
  /\ callerBuf.kind # "none"
  /\ callerBuf' = [callerBuf EXCEPT !.val = val]
  /\ calls' = <<>>
  /\ last' = Result("caller.write", FALSE, "", <<>>)
  /\ UNCHANGED <<tickPc, aliased, envVars, sessionVars, serverVars, caller, bulletVars,
                 historyVars>>

\* NimbleGUI.stopLooping (lines 155-156)
stopLooping ==
  /\ Callable
  /\ looping' = "False"
  /\ calls' = <<>>
  /\ last' = Result("stopLooping", FALSE, "", <<>>)
  /\ ticks' = -1
  /\ UNCHANGED <<auxVars, envVars, phase, useBullet, selfWorld, cloneState, posMatrixToLoop, i,
                 serverVars, caller, bulletVars, shown, teardowns>>

\* NimbleGUI.nativeAPI (lines 158-162): in bullet mode it prints and hands out
\* a DeprecatedClass
nativeAPI ==
  /\ Callable
  /\ calls' = <<>>
  /\ last' = Result("nativeAPI", FALSE, "", <<>>)
  /\ ticks' = -1
  /\ UNCHANGED <<auxVars, envVars, sessionVars, serverVars, caller, bulletVars, shown, teardowns>>

\* a method called on what nativeAPI returned: DeprecatedClass.__getattribute__
\* (lines 30-38) in bullet mode, the websocket server itself otherwise
nativeAPI_method ==
  /\ Callable
  /\ calls' = IF useBullet THEN <<>> ELSE <<Call("guiServer.method", <<>>)>>
  /\ last' = Result("nativeAPI.method", useBullet, "", <<>>)
  /\ ticks' = -1
  /\ UNCHANGED <<auxVars, envVars, sessionVars, serverVars, caller, bulletVars, shown, teardowns>>

\* NimbleGUI.blockWhileServing (lines 164-167): the caller stays in the call
\* while the websocket server serves
blockWhileServing ==
  /\ Callable
  /\ caller' = IF ~useBullet /\ guiServer = "serving"
                 THEN [Idle EXCEPT !.at = "blockWhileServing"] ELSE Idle
  /\ calls' = IF useBullet THEN <<>> ELSE <<Call("guiServer.blockWhileServing", <<>>)>>
  /\ last' = Result("blockWhileServing", FALSE, "", <<>>)
  /\ ticks' = -1
  /\ UNCHANGED <<auxVars, envVars, sessionVars, serverVars, bulletVars, shown, teardowns>>

\* a frame applied whatever the flag
TickAppliesUnflagged(lp, idx, n) == idx < n

\* lines 170-171: whether this firing applies a frame
TickApplies(lp, idx, n) == lp = "True" /\ idx < n

\* the cursor left at the end of the trajectory
TickCursorNoWrap(lp, idx, n) ==
  IF lp = "True" /\ idx < n THEN idx + 1 ELSE idx

\* the cursor wrapped in the firing that applies the last frame
TickCursorWrapEarly(lp, idx, n) ==
  IF lp = "True" THEN (IF idx + 1 < n THEN idx + 1 ELSE 0) ELSE idx

\* lines 170-176: the cursor after this firing (n: the trajectory's length)
TickCursor(lp, idx, n) ==
  IF lp = "True" THEN (IF idx < n THEN idx + 1 ELSE 0) ELSE idx

\* the firings that are counted after a loop start
TickCap == 2 * MaxLen + 1

\* the matrix self.posMatrixToLoop holds: its own memory, or the caller's buffer
LoopMatrix ==
  IF ~aliased THEN posMatrixToLoop
  ELSE IF callerBuf.kind = "states" THEN PosesOf(callerBuf.val, WorldNumDofs(worldSkels))
  ELSE callerBuf.val

\* NimbleGUI._onTick (lines 169-176), fired by the started Ticker
onTick ==
  /\ ticker = "running"
  /\ tickPc = "idle"
  /\ LET n == Len(LoopMatrix) IN
     /\ IF TickApplies(looping, i, n)
          THEN /\ cloneState' = SetPositions(cloneState, LoopMatrix[i + 1])
               /\ calls' = <<Call("setPositions", <<LoopMatrix[i + 1]>>),
                             Call("renderWorld", <<cloneState'>>)>>
          ELSE /\ cloneState' = cloneState
               /\ calls' = <<>>
     /\ i' = TickCursor(looping, i, n)
  /\ last' = Result("_onTick", FALSE, "", <<>>)
  /\ ticks' = IF ticks >= 0 /\ ticks < TickCap THEN ticks + 1 ELSE -1
  /\ UNCHANGED <<auxVars, envVars, phase, useBullet, selfWorld, looping, posMatrixToLoop,
                 serverVars, caller, bulletVars, shown, teardowns>>

\* _onTick line by line, the caller thread free to run between the lines.
\* line 170: the firing starts and tests self.looping
onTick_looping ==
  /\ ticker = "running"
  /\ tickPc = "idle"
  /\ tickPc' = IF looping = "True" THEN "bounds" ELSE "idle"
  /\ calls' = <<>>
  /\ last' = Result("_onTick", FALSE, "", <<>>)
  /\ ticks' = IF ticks >= 0 /\ ticks < TickCap THEN ticks + 1 ELSE -1
  /\ UNCHANGED <<bufferVars, envVars, sessionVars, serverVars, caller, bulletVars, shown,
                 teardowns>>

\* line 171: self.i against the length of the matrix self.posMatrixToLoop holds
\* now; lines 175-176 when the cursor is at or past it
onTick_bounds ==
  /\ tickPc = "bounds"
  /\ IF i < Len(LoopMatrix)
       THEN tickPc' = "frame" /\ i' = i
       ELSE tickPc' = "idle" /\ i' = 0
  /\ UNCHANGED <<bufferVars, envVars, phase, useBullet, selfWorld, cloneState, looping,
                 posMatrixToLoop, serverVars, caller, bulletVars, calls, last, historyVars>>

\* lines 172-174: column self.i of the matrix self.posMatrixToLoop holds now
\* (read again), which numpy refuses with an IndexError past the last column
onTick_frame ==
  /\ tickPc = "frame"
  /\ tickPc' = "idle"
  /\ IF i < Len(LoopMatrix)
       THEN /\ cloneState' = SetPositions(cloneState, LoopMatrix[i + 1])
            /\ calls' = <<Call("setPositions", <<LoopMatrix[i + 1]>>),
                          Call("renderWorld", <<cloneState'>>)>>
            /\ i' = i + 1
            /\ last' = Result("_onTick", FALSE, "", <<>>)
       ELSE /\ calls' = <<>>
            /\ last' = Result("_onTick", FALSE, "IndexError", <<>>)
            /\ UNCHANGED <<cloneState, i>>
  /\ UNCHANGED <<bufferVars, envVars, phase, useBullet, selfWorld, looping, posMatrixToLoop,
                 serverVars, caller, bulletVars, historyVars>>

\* NimbleGUI._onConnect (lines 328-329), called by the serving websocket server
\* when a viewer connects
onConnect ==
  /\ phase = "ready"
  /\ guiServer = "serving"
  /\ ticker' = "running"
  /\ calls' = <<Call("ticker.start", <<>>)>>
  /\ last' = Result("_onConnect", FALSE, "", <<>>)
  /\ ticks' = -1
  /\ UNCHANGED <<auxVars, envVars, sessionVars, guiServer, httpd, caller, bulletVars, shown, teardowns>>

\* -------------------------------------------------------------- specifications
\* the values of indefinite and save_start_idx a caller passes to loopStates;
\* the websocket branch (lines 139-147) reads neither, so one value stands for all
LoopFlags == IF useBullet THEN BOOLEAN ELSE {FALSE}
LoopStarts == IF useBullet THEN 0..1 ELSE {0}

Next ==
  \/ \E synth \in BOOLEAN, camPath \in BOOLEAN, video \in BOOLEAN, hl \in BOOLEAN,
        tables \in UrdfChoices(worldSkels) :
       NimbleGUI_init_bullet(synth, camPath, video, hl, tables)
  \/ NimbleGUI_init_websocket
  \/ serve
  \/ stopServing
  \/ \E state \in StateVectors(2 * WorldNumDofs(worldSkels)) : displayState(state)
  \/ \E states \in StateLists(2 * WorldNumDofs(worldSkels)),
        indefinite \in LoopFlags, save_start_idx \in LoopStarts :
       loopStates(states, indefinite, save_start_idx)
  \/ loopStates_frame
  \/ \E poses \in PosMatrices(WorldNumDofs(worldSkels)) : loopPosMatrix(poses)
  \/ stopLooping
  \/ nativeAPI
  \/ nativeAPI_method
  \/ blockWhileServing
  \/ onTick
  \/ onConnect

Spec == Init /\ [][Next]_vars

\* the world load alone, over every world within the bounds
LoadInit ==
  /\ worldSkels \in Worlds
  /\ callerState \in LoadStates(2 * WorldNumDofs(worldSkels))
  /\ InitRest

\* a headless load without capture directory or video log
LoadNext ==
  \E synth \in BOOLEAN, tables \in UrdfChoices(worldSkels) :
    NimbleGUI_init_bullet(synth, FALSE, FALSE, TRUE, tables)

LoadSpec == LoadInit /\ [][LoadNext]_vars

\* the websocket session with the caller thread running between the lines of
\* _onTick, which the Ticker's thread runs
ConcInit ==
  /\ worldSkels \in SessionWorlds
  /\ callerState = RampVec(2 * WorldNumDofs(worldSkels), 0)
  /\ InitRest

ConcNext ==
  \/ NimbleGUI_init_websocket
  \/ serve
  \/ onConnect
  \/ \E state \in StateVectors(2 * WorldNumDofs(worldSkels)) : displayState(state)
  \/ \E states \in StateLists(2 * WorldNumDofs(worldSkels)) : loopStates(states, FALSE, 0)
  \/ \E poses \in PosMatrices(WorldNumDofs(worldSkels)) : loopPosMatrix(poses)
  \/ stopLooping
  \/ onTick_looping
  \/ onTick_bounds
  \/ onTick_frame

ConcSpec == ConcInit /\ [][ConcNext]_vars

\* the websocket session whose started Ticker keeps firing
LiveNext ==
  \/ NimbleGUI_init_websocket
  \/ serve
  \/ onConnect
  \/ \E state \in StateVectors(2 * WorldNumDofs(worldSkels)) : displayState(state)
  \/ \E states \in StateLists(2 * WorldNumDofs(worldSkels)) : loopStates(states, FALSE, 0)
  \/ \E poses \in PosMatrices(WorldNumDofs(worldSkels)) : loopPosMatrix(poses)
  \/ stopLooping
  \/ onTick

LiveSpec == ConcInit /\ [][LiveNext]_vars /\ WF_vars(onTick)

\* the websocket session whose caller writes into the buffers it passed
BufferNext ==
  \/ NimbleGUI_init_websocket
  \/ serve
  \/ onConnect
  \/ \E states \in StateLists(2 * WorldNumDofs(worldSkels)) : loopStates(states, FALSE, 0)
  \/ \E poses \in PosMatrices(WorldNumDofs(worldSkels)) : loopPosMatrix(poses)
  \/ \E val \in BufferContents(callerBuf) : callerWrites(val)
  \/ onTick

BufferSpec == ConcInit /\ [][BufferNext]_vars

\* the bullet session whose caller thread keeps running inside loopStates
BlockNext ==
  \/ \E synth \in BOOLEAN, camPath \in BOOLEAN, tables \in UrdfChoices(worldSkels) :
       NimbleGUI_init_bullet(synth, camPath, FALSE, TRUE, tables)
  \/ \E states \in StateLists(2 * WorldNumDofs(worldSkels)), indefinite \in BOOLEAN,
        save_start_idx \in 0..1 :
       loopStates(states, indefinite, save_start_idx)
  \/ loopStates_frame

BlockSpec == ConcInit /\ [][BlockNext]_vars /\ WF_vars(loopStates_frame)

\* --------------------------------------------------------------------- claims
TrajLen == Len(posMatrixToLoop)

\* C1 as stated: a loop started at cursor 0 on N >= 1 frames has the cursor at 0
\* after N firings of _onTick, and at k after N+k firings (0 <= k < N).
C1_CursorWrapsAfterN ==
  (~useBullet /\ ticks >= 0 /\ TrajLen >= 1) =>
     /\ ticks = TrajLen => i = 0
     /\ \A k \in 0..(TrajLen - 1) : ticks = TrajLen + k => i = k

\* C1 amended: the wrap takes a firing of its own, so the cursor is N after N
\* firings, 0 after N+1, and k after N+1+k (0 <= k <= N): ticks modulo N+1.
C1_CursorWrapsAfterNPlusOne ==
  (~useBullet /\ ticks >= 0 /\ TrajLen >= 1) => i = ticks % (TrajLen + 1)

C1_Witness ==
  ~useBullet /\ TrajLen >= 2 /\ ticks = TrajLen + 2 /\ i = 1

\* C2: every loopStates / loopPosMatrix call of a websocket session leaves the
\* cursor at 0.
C2_LoopStartResetsCursor ==
  (~useBullet /\ last.op \in {"loopStates", "loopPosMatrix"}) => i = 0

WebsocketOnlyOps ==
  {"serve", "displayState", "loopPosMatrix", "stopLooping", "blockWhileServing",
   "nativeAPI", "nativeAPI.method"}

\* C4: a websocket-only operation on a bullet-mode session logs a warning,
\* raises nothing and changes no session state.
C4_WebsocketOnlyOpsWarnAndDoNothing ==
  (useBullet /\ phase = "ready" /\ last.op \in WebsocketOnlyOps) =>
     (last.warned /\ last.raised = "" /\ looping = "unset")

\* C5: a stopServing call after one that completed makes no collaborator call
\* (no stopStateLogging, disconnect, guiServer.stopServing, httpd.shutdown) and
\* raises nothing.
C5_TeardownIdempotent ==
  (last.op = "stopServing" /\ teardowns >= 2) => (calls = <<>> /\ last.raised = "")

\* C6: once stopServing has completed on a websocket session, no firing of
\* _onTick applies a trajectory frame.
C6_NoFrameAfterTeardown ==
  (~useBullet /\ teardowns >= 1 /\ guiServer = "stopped") =>
     ~(last.op = "_onTick" /\ calls # <<>>)

\* C7: no operation of the session changes the state of the caller-owned world.
C7_CallerWorldUntouched == [][callerState' = callerState]_vars

\* some non-fixed, non-free joint has no same-named joint in its body's table
MissingJoint ==
  \E k \in 1..Len(worldSkels) : \E j \in 1..Len(worldSkels[k].joints) :
     /\ k <= Len(urdf)
     /\ worldSkels[k].joints[j].type \notin {"WeldJoint", "FreeJoint"}
     /\ ~InTable(urdf[k], worldSkels[k].joints[j].name)

PoseCalls == {"resetJointState", "resetJointStateMultiDof", "resetBasePositionAndOrientation"}

\* C8: a load with a missing renderer joint ends in the assertion error, with
\* no joint position or root pose applied before it, and the session is never
\* constructed.
C8_MissingJointAbortsLoad ==
  (useBullet /\ phase # "new" /\ MissingJoint) =>
     /\ phase = "failed"
     /\ last.raised = "AssertionError"
     /\ \A c \in 1..Len(calls) : calls[c].fn \notin PoseCalls

\* the joint is missing in the second body, after a first one with state to apply
C8_Witness ==
  /\ phase = "failed" /\ MissingJoint
  /\ Len(worldSkels) >= 2 /\ SkelNumDofs(worldSkels[1]) > 0
  /\ Len(joint_to_state) = 2

\* C9: the error of a missing renderer joint names the joint and the skeleton
\* that owns it.
C9_ErrorNamesJointAndSkeleton ==
  (useBullet /\ phase = "failed") =>
     \E a, b \in 1..Len(last.msg) :
        /\ \E j \in 1..Len(worldSkels[Len(joint_to_state)].joints) :
              last.msg[a] = worldSkels[Len(joint_to_state)].joints[j].name
        /\ last.msg[b] = worldSkels[Len(joint_to_state)].name

\* the places of the non-fixed joints of a joint list, in declaration order
RECURSIVE NonFixed(_, _)
NonFixed(joints, k) ==
  IF k > Len(joints) THEN <<>>
  ELSE (IF joints[k].type = "WeldJoint" THEN <<>> ELSE <<k>>) \o NonFixed(joints, k + 1)

RECURSIVE SumEntryDofs(_)
SumEntryDofs(entries) ==
  IF entries = <<>> THEN 0 ELSE Head(entries).dof + SumEntryDofs(Tail(entries))

\* C10: after a successful load every skeleton's mapping has one entry per
\* non-fixed joint in declaration order, offsets from 0 each the previous
\* offset plus the previous DOF count, DOF counts summing to the skeleton's.
C10_MappingPartitionsDofs ==
  (useBullet /\ phase = "ready") =>
     /\ Len(joint_to_state) = Len(worldSkels)
     /\ \A k \in 1..Len(worldSkels) :
          LET m == joint_to_state[k]
              joints == worldSkels[k].joints
              nf == NonFixed(joints, 1)
          IN /\ Len(m) = Len(nf)
             /\ \A e \in 1..Len(m) :
                  /\ m[e].nimble_joint_idx = nf[e] - 1
                  /\ m[e].dof = joints[nf[e]].dof
                  /\ m[e].isFreeJoint = (joints[nf[e]].type = "FreeJoint")
                  /\ m[e].staTick = IF e = 1 THEN 0 ELSE m[e - 1].staTick + m[e - 1].dof
             /\ SumEntryDofs(m) = SkelNumDofs(worldSkels[k])

\* a skeleton whose second entry starts after a multi-DOF joint
C10_Witness ==
  /\ useBullet /\ phase = "ready"
  /\ \E k \in 1..Len(joint_to_state) :
       Len(joint_to_state[k]) >= 2 /\ joint_to_state[k][2].staTick > 1

\* the state the latest bullet_loopState call applied: the world's own state
\* during the load, the current state of the list in a blocking loop
AppliedState == IF last.op = "__init__" THEN callerState ELSE caller.states[caller.k]

StateApplied == useBullet /\ phase = "ready" /\ last.op \in {"__init__", "bullet_loopState"}

\* the flat position index (from 0) of the first value of joint j of skeleton k
FlatStart(k, j) ==
  WorldNumDofs(SubSeq(worldSkels, 1, k - 1)) + SumDofs(SubSeq(worldSkels[k].joints, 1, j - 1))

\* the values of the applied state at the flat indices of joint j of skeleton k
JointValues(k, j) ==
  [m \in 1..worldSkels[k].joints[j].dof |-> AppliedState[FlatStart(k, j) + m]]

\* the places <<k, j>> of the joints of the given types
JointsOfType(types) ==
  {p \in (1..Len(worldSkels)) \X (1..MaxJoints) :
     /\ p[2] <= Len(worldSkels[p[1]].joints)
     /\ worldSkels[p[1]].joints[p[2]].type \in types}

CallsTo(fns) == {c \in 1..Len(calls) : calls[c].fn \in fns}

\* C11: for every applied state and every free joint, also one whose name the
\* renderer body has, the mirror gets the root pose (recorded position + last
\* three values of the joint's slice, recorded orientation + first three
\* values); a zero slice gives the recorded pose itself.
C11_FreeJointSetsRootPose ==
  StateApplied =>
    /\ \A p \in JointsOfType({"FreeJoint"}) :
         LET skel == worldSkels[p[1]]
             v == JointValues(p[1], p[2])
             init == DictGet(init_pos_rot, skel.name)
             id == DictGet(skeleton_to_bullet_id, skel.name)[2]
         IN /\ \E c \in CallsTo({"resetBasePositionAndOrientation"}) :
                 calls[c].args =
                   <<id, <<init[2][1] + v[4], init[2][2] + v[5], init[2][3] + v[6]>>,
                     Quat(<<init[3][1] + v[1], init[3][2] + v[2], init[3][3] + v[3]>>)>>
            /\ (\A m \in 1..6 : v[m] = 0) =>
                 \E c \in CallsTo({"resetBasePositionAndOrientation"}) :
                   calls[c].args = <<id, skel.pos, Quat(skel.rot)>>
    /\ Cardinality(CallsTo({"resetBasePositionAndOrientation"}))
         = Cardinality(JointsOfType({"FreeJoint"}))

\* a free joint the renderer body has by name, after another joint's values,
\* under a slice of zeros
C11_Witness ==
  /\ StateApplied
  /\ \E p \in JointsOfType({"FreeJoint"}) :
       /\ InTable(urdf[p[1]], worldSkels[p[1]].joints[p[2]].name)
       /\ FlatStart(p[1], p[2]) > 0
       /\ \A m \in 1..6 : JointValues(p[1], p[2])[m] = 0

\* C12: for every applied state, every non-fixed non-free joint gets exactly
\* the values at its flat indices (skeleton base plus joint offset), a scalar
\* for one DOF and a vector for more, at the renderer joint index of its name;
\* every position index below the world's DOF count belongs to one joint.
C12_JointGetsItsSlice ==
  StateApplied =>
    /\ \A p \in JointsOfType({"RevoluteJoint", "BallJoint"}) :
         LET skel == worldSkels[p[1]]
             joint == skel.joints[p[2]]
             v == JointValues(p[1], p[2])
             id == DictGet(skeleton_to_bullet_id, skel.name)[2]
             idx == BulletJointIdx(urdf[p[1]], joint.name)
         IN IF joint.dof = 1
              THEN \E c \in CallsTo({"resetJointState"}) :
                     calls[c].args = <<id, idx, v[1]>>
              ELSE \E c \in CallsTo({"resetJointStateMultiDof"}) :
                     calls[c].args = <<id, idx, v>>
    /\ Cardinality(CallsTo({"resetJointState", "resetJointStateMultiDof"}))
         = Cardinality(JointsOfType({"RevoluteJoint", "BallJoint"}))
    /\ \A x \in 0..(WorldNumDofs(worldSkels) - 1) :
         Cardinality({p \in JointsOfType(JointTypes) :
                        /\ FlatStart(p[1], p[2]) <= x
                        /\ x < FlatStart(p[1], p[2]) + worldSkels[p[1]].joints[p[2]].dof
                        /\ \E e \in 1..Len(joint_to_state[p[1]]) :
                             /\ joint_to_state[p[1]][e].nimble_joint_idx = p[2] - 1
                             /\ FlatStart(p[1], 1) + joint_to_state[p[1]][e].staTick
                                  = FlatStart(p[1], p[2])}) = 1

\* a multi-DOF joint of a second skeleton, under the state whose values differ
C12_Witness ==
  /\ StateApplied
  /\ \E p \in JointsOfType({"BallJoint"}) :
       /\ p[1] >= 2 /\ FlatStart(p[1], p[2]) > 0
       /\ JointValues(p[1], p[2])[1] # JointValues(p[1], p[2])[2]

\* C13: a tick's bounds check and frame read use the same trajectory: when the
\* frame is read the cursor is inside the trajectory read, and no tick indexes
\* past the end of a trajectory.
C13_TickReadsOneTrajectory ==
  /\ tickPc = "frame" => i < Len(LoopMatrix)
  /\ last.raised # "IndexError"

\* a loop is active, the Ticker runs and the trajectory has a frame f
ActiveOn(f) == ~useBullet /\ ticker = "running" /\ looping = "True" /\ TrajLen > f

\* the latest firing of _onTick applied frame f
FrameApplied(f) ==
  /\ last.op = "_onTick" /\ calls # <<>>
  /\ i = f + 1 /\ f < TrajLen
  /\ calls[1].args = <<posMatrixToLoop[f + 1]>>

\* C14: while a loop on a non-empty trajectory stays active and the Ticker
\* keeps firing, each firing applies the frame at the cursor and moves the
\* cursor one up, or returns it from the end to 0; every frame is applied
\* infinitely often.
C14_PlaybackNeverStops ==
  /\ [][(onTick /\ looping = "True" /\ TrajLen > 0) =>
          IF i < TrajLen
            THEN calls' = <<Call("setPositions", <<posMatrixToLoop[i + 1]>>),
                            Call("renderWorld", <<cloneState'>>)>> /\ i' = i + 1
            ELSE calls' = <<>> /\ i' = 0]_vars
  /\ \A f \in 0..(MaxLen - 1) : (<>[]ActiveOn(f)) => ([]<>FrameApplied(f))

\* the last frame applied for the second time
C14_Witness ==
  /\ TrajLen >= 2 /\ looping = "True"
  /\ ticks = 2 * TrajLen + 1 /\ FrameApplied(TrajLen - 1)

\* C15: stopLooping changes the active flag and nothing else of trajectory,
\* cursor and world; a firing of _onTick while the flag is off changes none of
\* world, cursor and trajectory and applies no frame.
C15_StopLoopingOnlyClearsFlag ==
  [][/\ stopLooping =>
          (looping' = "False" /\
           UNCHANGED <<posMatrixToLoop, i, cloneState, callerState, bufferVars>>)
     /\ (onTick /\ looping # "True") =>
          (calls' = <<>> /\
           UNCHANGED <<posMatrixToLoop, i, cloneState, callerState, looping>>)]_vars

\* a firing after stopLooping, the cursor on a frame that differs from the world
C15_Witness ==
  /\ ~useBullet /\ last.op = "_onTick" /\ looping = "False" /\ shown = None
  /\ i < TrajLen
  /\ SetPositions(cloneState, posMatrixToLoop[i + 1]) # cloneState

\* C16: after loopPosMatrix / loopStates returned, a write of the caller into
\* the buffer it passed changes no frame of the trajectory the session holds,
\* and every frame a later firing applies is the column the buffer had when
\* the call returned.
C16_PlaysFromOwnCopy ==
  [][/\ (callerBuf' # callerBuf /\ last'.op = "caller.write") => LoopMatrix' = LoopMatrix
     /\ (onTick /\ calls' # <<>>) =>
          calls'[1] = Call("setPositions", <<posMatrixToLoop[i + 1]>>)]_vars

\* a firing applied a frame whose column the caller had overwritten
C16_Witness ==
  /\ last.op = "_onTick" /\ calls # <<>>
  /\ callerBuf.kind = "poses"
  /\ Len(callerBuf.val) = TrajLen
  /\ callerBuf.val[i] # posMatrixToLoop[i]

\* the np.save calls of the latest operation, in order
SaveCalls ==
  LET IsSave(c) == c.fn = "np.save" IN SelectSeq(calls, IsSave)

\* C17: in bullet mode buffers are written only by a frame of a loop, with a
\* capture directory configured; the state applied during the load is never
\* written; a written frame gives exactly the files rgb_, depth_ and
\* segmentation_ of its save index.
C17_CaptureOnlyWithPathAndIndex ==
  useBullet =>
    /\ last.op = "__init__" => SaveCalls = <<>>
    /\ SaveCalls # <<>> =>
         /\ saveCameraPath # None
         /\ last.op = "bullet_loopState"
         /\ SaveCalls = <<Call("np.save", <<"rgb_", caller.start + caller.k - 1>>),
                          Call("np.save", <<"depth_", caller.start + caller.k - 1>>),
                          Call("np.save", <<"segmentation_", caller.start + caller.k - 1>>)>>

\* the second frame of a loop started at save index 1, written under index 2
C17_Witness ==
  /\ useBullet /\ last.op = "bullet_loopState"
  /\ caller.start = 1 /\ caller.k = 2
  /\ Len(SaveCalls) = 3 /\ SaveCalls[1].args = <<"rgb_", 2>>

\* C18 as stated: the save index of every frame of a loopStates call is above
\* the save index of the frame before it in that call, repeats included.
C18_SaveIdxIncreasesOverCall ==
  (useBullet /\ last.op = "bullet_loopState" /\ caller.prevIdx >= 0) =>
     caller.lastIdx > caller.prevIdx

\* C18 amended: the k-th state of the list (k from 0) has save index
\* save_start_idx + k in every pass: one above the frame before it within a
\* pass, and back at save_start_idx when a repeat starts.
C18_SaveIdxIncreasesWithinPass ==
  (useBullet /\ last.op = "bullet_loopState") =>
     /\ caller.lastIdx = caller.start + caller.k - 1
     /\ caller.k >= 2 => caller.lastIdx = caller.prevIdx + 1
     /\ (caller.k = 1 /\ caller.prevIdx >= 0) =>
          /\ caller.indefinite
          /\ caller.prevIdx = caller.start + Len(caller.states) - 1
     /\ SaveCalls # <<>> => SaveCalls[1].args[2] = caller.lastIdx

\* the first frame of a repeat of a two-state loop, written under the start index
C18_Witness ==
  /\ useBullet /\ last.op = "bullet_loopState"
  /\ caller.k = 1 /\ caller.prevIdx = caller.start + 1 /\ caller.start = 1
  /\ SaveCalls # <<>>

\* C19: a blocking loopStates applies the states of the list one by one in
\* their order; at the end of the list it returns when indefinite is false,
\* which it always reaches, and starts over when indefinite is true, never
\* returning and applying every state again and again.
C19_BlockingLoopRunsAndReturns ==
  /\ [][loopStates_frame =>
          IF caller.k < Len(caller.states)
            THEN /\ caller'.at = "loopStates" /\ caller'.k = caller.k + 1
                 /\ \E c \in 1..Len(calls') :
                      /\ calls'[c].fn = "resetJointState"
                      /\ calls'[c].args[3] = caller.states[caller.k + 1][1]
            ELSE /\ calls' = <<>>
                 /\ IF caller.indefinite
                      THEN caller'.at = "loopStates" /\ caller'.k = 0
                      ELSE caller'.at = "idle"]_vars
  /\ [][(caller.at = "loopStates" /\ caller'.at # "loopStates") =>
          (~caller.indefinite /\ caller.k = Len(caller.states))]_vars
  /\ (caller.at = "loopStates" /\ ~caller.indefinite) ~> (caller.at = "idle")
  /\ \A f \in 0..(MaxLen - 1) :
       (caller.at = "loopStates" /\ caller.indefinite /\ Len(caller.states) > f)
         ~> (last.op = "bullet_loopState" /\ caller.k = f + 1)

\* both states of a two-state loop applied, the call about to return
C19_Witness ==
  /\ useBullet /\ last.op = "bullet_loopState"
  /\ caller.at = "loopStates" /\ ~caller.indefinite
  /\ Len(caller.states) = 2 /\ caller.k = 2

\* C20: a bullet-mode stopServing disconnects once; it stops the video log
\* once and before the disconnect if one was started at construction, and makes
\* no stopStateLogging call otherwise.
C20_LogStoppedBeforeDisconnect ==
  (useBullet /\ last.op = "stopServing") =>
     /\ Cardinality(CallsTo({"disconnect"})) = 1
     /\ log_id # None =>
          /\ Cardinality(CallsTo({"stopStateLogging"})) = 1
          /\ \A s \in CallsTo({"stopStateLogging"}), d \in CallsTo({"disconnect"}) : s < d
     /\ log_id = None => CallsTo({"stopStateLogging"}) = {}

\* a teardown of a session whose construction started a video log
C20_Witness ==
  /\ useBullet /\ last.op = "stopServing" /\ teardowns = 1
  /\ log_id # None /\ Len(calls) = 2

====
